---- MODULE Spec2Model ----
(***************************************************************************)
(* Client-side prediction-request orchestration of the guest dashboard:    *)
(* the Analyze page (explicit submit), the SimulatorControls component     *)
(* (debounced slider requests) and the VoiceCommand component, all         *)
(* calling predictGuestBehavior and writing the page's prediction state.   *)
(*                                                                         *)
(* Execution model: a single-threaded event loop.  Every action below is   *)
(* one macrotask: a UI event handler, a timer callback, a speech           *)
(* recognition event, or the continuation of an awaited network call.      *)
(***************************************************************************)
EXTENDS Integers, Sequences, FiniteSets, TLC

(***************************************************************************)
(* Bounds of the model.                                                    *)
(***************************************************************************)
MaxReq == 2          \* network calls issued in one behaviour
MaxCalls == 2        \* accepted triggerSimulation calls in one behaviour
MaxVoiceMounts == 1  \* times the voice panel is opened
MaxSaves == 4        \* saveAnalysis calls in one behaviour
MaxTime == 2         \* latest millisecond the clock reaches
MaxTags == 2         \* smart tags of one prediction
MaxRes == 2          \* reservations loaded in the table view

\* The source sets MAX_RECORDS = 100 (historyStore.ts:12); the history is
\* checked with a small capacity, which the saves of one behaviour exceed.
MAX_RECORDS == 2

(***************************************************************************)
(* Text.  A string is a sequence of characters; " " is whitespace.         *)
(***************************************************************************)
\* the texts typed into the guest-name input or spoken: empty, whitespace
\* only, and a name with whitespace around it
Texts == {<<>>, <<" ", " ">>, <<" ", "a", " ">>}

IsSpace(c) == c = " "

RECURSIVE TrimStart(_)
TrimStart(s) ==
    IF s = <<>> THEN s
    ELSE IF IsSpace(Head(s)) THEN TrimStart(Tail(s)) ELSE s

RECURSIVE TrimEnd(_)
TrimEnd(s) ==
    IF s = <<>> THEN s
    ELSE IF IsSpace(s[Len(s)]) THEN TrimEnd(SubSeq(s, 1, Len(s) - 1)) ELSE s

\* String.prototype.trim
Trim(s) == TrimEnd(TrimStart(s))

\* faulty variant: the test without trim()
IsBlankNoTrim(s) == s = <<>>

\* `!name.trim()' : the trimmed string is the empty (falsy) string
IsBlank(s) == Trim(s) = <<>>

VoiceGuest == <<"V", "o", "i", "c", "e", " ", "G", "u", "e", "s", "t">>

(***************************************************************************)
(* Forms.  Only the fields a handler of the model reads or writes.         *)
(***************************************************************************)
LeadTimes == {5, 10}

EMPTY_FORM == [guest_name |-> <<>>, booking_advance_days |-> 0]

\* form literal built by recognition.onend
VoiceForm == [guest_name |-> VoiceGuest, booking_advance_days |-> 1]

ValidationMsg == "Guest name is required"

\* outcomes of one fetch + res.json(): a 2xx response, a non-2xx response,
\* a transport failure (fetch rejects)
Outcomes == {"ok", "http_error", "network_error"}

\* the message of the Error a failed predictGuestBehavior rejects with
ErrorMessage(outcome) ==
    IF outcome = "http_error" THEN "Prediction failed: Internal Server Error"
    ELSE "Failed to fetch"

Status(outcome) == IF outcome = "ok" THEN "ok" ELSE "failed"

NoSignal == 0

\* predictGuestBehavior: one POST; the fetch init carries method, headers and
\* body only, so the request is tied to no AbortSignal.  `producer', `timer'
\* and `inst' name the caller: the handler, the timer that fired, the
\* VoiceCommand instance.
predictGuestBehavior(reservation, producer, timer, inst) ==
    [producer |-> producer, payload |-> reservation, signal |-> NoSignal,
     status |-> "inflight", timer |-> timer, inst |-> inst, delivered |-> 0]

VARIABLES
    mounted,      \* AnalyzePage (and the SimulatorControls in it) is mounted
    form,         \* AnalyzePage.form
    prediction,   \* AnalyzePage.prediction: 0 = null, else the request whose response it is
    loading,      \* AnalyzePage.loading
    error,        \* AnalyzePage.error
    showVoice,    \* AnalyzePage.showVoice
    simulating,   \* SimulatorControls.simulating
    debounceRef,  \* SimulatorControls.debounceRef.current: a timer id, 0 = undefined
    abortRef,     \* SimulatorControls.abortRef.current: a controller id, 0 = undefined
    timers,       \* pending setTimeout callbacks: [id, form]
    aborted,      \* AbortControllers on which abort() was called
    lastCall,     \* the form passed to the latest accepted triggerSimulation call
    requests,     \* every network call issued, in order of issue; the field
                  \* `delivered' counts the times its response reached the page
    voiceInst,    \* number of the mounted VoiceCommand instance
    listening,    \* VoiceCommand.listening of the mounted instance
    processing,   \* VoiceCommand.processing of the mounted instance
    recog,        \* VoiceCommand instances whose SpeechRecognition is running
    lastEvent     \* the handler, callback or store operation that ran last

VARIABLES
    storage,      \* localStorage item STORAGE_KEY, as text
    clock,        \* the millisecond Date.now() returned last
    serial,       \* number of saveAnalysis calls made
    sinceClear,   \* number of saveAnalysis calls since the start or the last clearHistory
    deletedSince, \* a deleteRecord call removed a record since then
    returned      \* what the last store operation was given, returned or threw

VARIABLES
    pred,         \* the prediction given to deriveActions
    actions       \* what deriveActions returned for it: <<>> before the call

VARIABLES
    batchLoading, \* TableViewPage.batchLoading
    predictions,  \* TableViewPage.predictions: the reservations that have a prediction
    flows         \* the predictBatch / predictGuestBehavior calls TableViewPage awaits:
                  \* at most one per reservation, and the batch

tableVars == <<batchLoading, predictions, flows>>

storeVars == <<storage, clock, serial, sinceClear, deletedSince, returned>>
ruleVars == <<pred, actions>>

analyzeVars == <<mounted, form, prediction, loading, error, showVoice, simulating,
                 debounceRef, abortRef, timers, aborted, lastCall, requests,
                 voiceInst, listening, processing, recog>>

vars == <<analyzeVars, lastEvent, storeVars, ruleVars, tableVars>>

pageVars == <<form, prediction, loading, error, showVoice>>
simVars == <<simulating, debounceRef, abortRef, timers, aborted, lastCall>>
voiceVars == <<voiceInst, listening, processing, recog>>

AnalyzeInit ==
    /\ mounted = TRUE
    /\ form = EMPTY_FORM
    /\ prediction = 0
    /\ loading = FALSE
    /\ error = ""
    /\ showVoice = FALSE
    /\ simulating = FALSE
    /\ debounceRef = 0
    /\ abortRef = 0
    /\ timers = {}
    /\ aborted = {}
    /\ lastCall = EMPTY_FORM
    /\ requests = <<>>
    /\ voiceInst = 0
    /\ listening = FALSE
    /\ processing = FALSE
    /\ recog = {}
    /\ lastEvent = "init"

(***************************************************************************)
(* Helpers.                                                                *)
(***************************************************************************)
ReqIds == 1..Len(requests)
InFlight(p) == {i \in ReqIds : requests[i].producer = p /\ requests[i].status = "inflight"}

\* a state setter of a component is a no-op once the component is unmounted
SetState(alive, old, new) == IF alive THEN new ELSE old

\* faulty variant: the previous timer is not cleared
ClearTimeoutNoop(ts, id) == ts

\* faulty variant: the timer before the previous one is cleared
ClearTimeoutStale(ts, id) == IF id # 0 THEN {t \in ts : t.id # id - 1} ELSE ts

\* `if (debounceRef.current) clearTimeout(debounceRef.current)': removes the
\* pending timer with that id, if any
ClearTimeout(ts, id) == IF id # 0 THEN {t \in ts : t.id # id} ELSE ts

\* `if (abortRef.current) abortRef.current.abort()'
Abort(set, ctrl) == IF ctrl # 0 THEN set \cup {ctrl} ELSE set

\* a request is cancelled when the signal its fetch was given is aborted
Cancelled(i) == requests[i].signal # NoSignal /\ requests[i].signal \in aborted

\* the response of request i is handed to the page
Deliver(reqs, i) == [reqs EXCEPT ![i].delivered = @ + 1]

\* the mounted VoiceCommand instance is instance `inst'
VoiceAlive(inst) == mounted /\ showVoice /\ inst = voiceInst

(***************************************************************************)
(* AnalyzePage                                                             *)
(***************************************************************************)
\* typing in the guest-name input: update("guest_name", v)
UpdateGuestName(v) ==
    /\ lastEvent' = "update"
    /\ UNCHANGED <<storeVars, ruleVars, tableVars>>
    /\ mounted
    /\ v # form.guest_name
    /\ form' = [form EXCEPT !.guest_name = v]
    /\ UNCHANGED <<mounted, prediction, loading, error, showVoice, requests>>
    /\ UNCHANGED simVars
    /\ UNCHANGED voiceVars

\* faulty variant: setLoading(true) placed before the validation
HandleSubmitLoadingFirst ==
    /\ lastEvent' = "handleSubmit"
    /\ UNCHANGED <<storeVars, ruleVars, tableVars>>
    /\ mounted
    /\ ~loading
    /\ IF IsBlank(form.guest_name)
       THEN /\ loading' = TRUE
            /\ error' = ValidationMsg
            /\ UNCHANGED requests
       ELSE /\ Len(requests) < MaxReq
            /\ loading' = TRUE
            /\ error' = ""
            /\ requests' = Append(requests, predictGuestBehavior(form, "submit", 0, 0))
    /\ UNCHANGED <<mounted, form, prediction, showVoice>>
    /\ UNCHANGED simVars
    /\ UNCHANGED voiceVars

\* handleSubmit up to its await; the submit button is disabled while loading
HandleSubmit ==
    /\ lastEvent' = "handleSubmit"
    /\ UNCHANGED <<storeVars, ruleVars, tableVars>>
    /\ mounted
    /\ ~loading
    /\ IF IsBlank(form.guest_name)
       THEN /\ error' = ValidationMsg
            /\ UNCHANGED <<loading, requests>>
       ELSE /\ Len(requests) < MaxReq
            /\ loading' = TRUE
            /\ error' = ""
            /\ requests' = Append(requests, predictGuestBehavior(form, "submit", 0, 0))
    /\ UNCHANGED <<mounted, form, prediction, showVoice>>
    /\ UNCHANGED simVars
    /\ UNCHANGED voiceVars

\* faulty variant: setLoading(false) at the end of the try block, no finally
SubmitResponseNoFinally(i, outcome) ==
    /\ lastEvent' = "submitResponse"
    /\ UNCHANGED <<storeVars, ruleVars, tableVars>>
    /\ i \in InFlight("submit")
    /\ IF outcome = "ok"
       THEN /\ prediction' = SetState(mounted, prediction, i)
            /\ requests' = Deliver([requests EXCEPT ![i].status = "ok"], i)
            /\ loading' = SetState(mounted, loading, FALSE)
            /\ UNCHANGED error
       ELSE /\ error' = SetState(mounted, error, ErrorMessage(outcome))
            /\ requests' = [requests EXCEPT ![i].status = "failed"]
            /\ UNCHANGED <<prediction, loading>>
    /\ UNCHANGED <<mounted, form, showVoice>>
    /\ UNCHANGED simVars
    /\ UNCHANGED voiceVars

\* handleSubmit after its await: try / catch / finally
SubmitResponse(i, outcome) ==
    /\ lastEvent' = "submitResponse"
    /\ UNCHANGED <<storeVars, ruleVars, tableVars>>
    /\ i \in InFlight("submit")
    /\ IF outcome = "ok"
       THEN /\ prediction' = SetState(mounted, prediction, i)
            /\ requests' = Deliver([requests EXCEPT ![i].status = "ok"], i)
            /\ UNCHANGED error
       ELSE /\ error' = SetState(mounted, error, ErrorMessage(outcome))
            /\ requests' = [requests EXCEPT ![i].status = "failed"]
            /\ UNCHANGED prediction
    /\ loading' = SetState(mounted, loading, FALSE)
    /\ UNCHANGED <<mounted, form, showVoice>>
    /\ UNCHANGED simVars
    /\ UNCHANGED voiceVars

\* the "Voice Input" / "Hide Voice" button: mounts a fresh VoiceCommand or
\* unmounts the mounted one
ToggleVoice ==
    /\ lastEvent' = "toggleVoice"
    /\ UNCHANGED <<storeVars, ruleVars, tableVars>>
    /\ mounted
    /\ IF showVoice
       THEN /\ showVoice' = FALSE
            /\ UNCHANGED voiceInst
       ELSE /\ voiceInst < MaxVoiceMounts
            /\ showVoice' = TRUE
            /\ voiceInst' = voiceInst + 1
    /\ listening' = FALSE
    /\ processing' = FALSE
    /\ UNCHANGED <<mounted, form, prediction, loading, error, requests, recog>>
    /\ UNCHANGED simVars

\* leaving the route: AnalyzePage and its children unmount; the cleanup of
\* SimulatorControls' effect runs
Unmount ==
    /\ lastEvent' = "unmount"
    /\ UNCHANGED <<storeVars, ruleVars, tableVars>>
    /\ mounted
    /\ mounted' = FALSE
    /\ timers' = ClearTimeout(timers, debounceRef)
    /\ aborted' = Abort(aborted, abortRef)
    /\ UNCHANGED <<simulating, debounceRef, abortRef, lastCall, requests>>
    /\ UNCHANGED pageVars
    /\ UNCHANGED voiceVars

(***************************************************************************)
(* SimulatorControls                                                       *)
(***************************************************************************)
\* triggerSimulation(updatedForm); setTimeout returns the next timer id
triggerSimulation(updatedForm) ==
    IF IsBlank(updatedForm.guest_name)
    THEN UNCHANGED <<debounceRef, abortRef, timers, aborted, lastCall>>
    ELSE /\ debounceRef < MaxCalls
         /\ timers' = ClearTimeout(timers, debounceRef)
                        \cup {[id |-> debounceRef + 1, form |-> updatedForm]}
         /\ debounceRef' = debounceRef + 1
         /\ aborted' = Abort(aborted, abortRef)
         /\ lastCall' = updatedForm
         /\ UNCHANGED abortRef

\* the lead-time slider: onFormChange, then triggerSimulation({...form, field: val})
handleLeadTime(val) ==
    /\ lastEvent' = "handleLeadTime"
    /\ UNCHANGED <<storeVars, ruleVars, tableVars>>
    /\ mounted
    /\ val # form.booking_advance_days
    /\ form' = [form EXCEPT !.booking_advance_days = val]
    /\ triggerSimulation([form EXCEPT !.booking_advance_days = val])
    /\ UNCHANGED <<mounted, prediction, loading, error, showVoice, simulating, requests>>
    /\ UNCHANGED voiceVars

\* the setTimeout callback up to its await; the new AbortController is
\* numbered like the request issued next to it
TimerFire(t) ==
    /\ lastEvent' = "timer"
    /\ UNCHANGED <<storeVars, ruleVars, tableVars>>
    /\ t \in timers
    /\ Len(requests) < MaxReq
    /\ timers' = timers \ {t}
    /\ simulating' = SetState(mounted, simulating, TRUE)
    /\ abortRef' = Len(requests) + 1
    /\ requests' = Append(requests, predictGuestBehavior(t.form, "sim", t.id, 0))
    /\ UNCHANGED <<mounted, debounceRef, aborted, lastCall>>
    /\ UNCHANGED pageVars
    /\ UNCHANGED voiceVars

\* faulty variant: the result is handed to onPrediction twice
SimResponseTwice(i, outcome) ==
    /\ lastEvent' = "simResponse"
    /\ UNCHANGED <<storeVars, ruleVars, tableVars>>
    /\ i \in InFlight("sim")
    /\ IF outcome = "ok"
       THEN /\ prediction' = SetState(mounted, prediction, i)
            /\ requests' = Deliver(Deliver([requests EXCEPT ![i].status = "ok"], i), i)
       ELSE /\ requests' = [requests EXCEPT ![i].status = "failed"]
            /\ UNCHANGED prediction
    /\ simulating' = SetState(mounted, simulating, FALSE)
    /\ UNCHANGED <<mounted, form, loading, error, showVoice>>
    /\ UNCHANGED <<debounceRef, abortRef, timers, aborted, lastCall>>
    /\ UNCHANGED voiceVars

\* the setTimeout callback after its await: try / catch / finally;
\* onPrediction is AnalyzePage.handleSimPrediction
SimResponse(i, outcome) ==
    /\ lastEvent' = "simResponse"
    /\ UNCHANGED <<storeVars, ruleVars, tableVars>>
    /\ i \in InFlight("sim")
    /\ IF outcome = "ok"
       THEN /\ prediction' = SetState(mounted, prediction, i)
            /\ requests' = Deliver([requests EXCEPT ![i].status = "ok"], i)
       ELSE /\ requests' = [requests EXCEPT ![i].status = "failed"]
            /\ UNCHANGED prediction
    /\ simulating' = SetState(mounted, simulating, FALSE)
    /\ UNCHANGED <<mounted, form, loading, error, showVoice>>
    /\ UNCHANGED <<debounceRef, abortRef, timers, aborted, lastCall>>
    /\ UNCHANGED voiceVars

(***************************************************************************)
(* VoiceCommand.  Its `error' and `transcript' states are written only,    *)
(* never read by a handler, and are left out.                              *)
(***************************************************************************)
\* the mic button while idle: startListening, then recognition.onstart
StartListening ==
    /\ lastEvent' = "startListening"
    /\ UNCHANGED <<storeVars, ruleVars, tableVars>>
    /\ mounted
    /\ showVoice
    /\ ~listening
    /\ ~processing
    /\ recog' = recog \cup {voiceInst}
    /\ listening' = TRUE
    /\ UNCHANGED <<mounted, requests, voiceInst, processing>>
    /\ UNCHANGED pageVars
    /\ UNCHANGED simVars

\* recognition.onend up to its await, for the recognition started by
\* instance `inst', with final transcript `text'
RecognitionEnd(inst, text) ==
    /\ lastEvent' = "onend"
    /\ UNCHANGED <<storeVars, ruleVars, tableVars>>
    /\ inst \in recog
    /\ recog' = recog \ {inst}
    /\ listening' = SetState(VoiceAlive(inst), listening, FALSE)
    /\ IF IsBlank(text)
       THEN /\ processing' = SetState(VoiceAlive(inst), processing, FALSE)
            /\ UNCHANGED <<form, prediction, requests>>
       ELSE /\ Len(requests) < MaxReq
            /\ processing' = SetState(VoiceAlive(inst), processing, TRUE)
            /\ form' = SetState(mounted, form, [form EXCEPT !.guest_name = VoiceGuest])
            /\ prediction' = SetState(mounted, prediction, 0)
            /\ requests' = Append(requests, predictGuestBehavior(VoiceForm, "voice", 0, inst))
    /\ UNCHANGED <<mounted, loading, error, showVoice, voiceInst>>
    /\ UNCHANGED simVars

\* recognition.onend after its await: try / catch / finally;
\* onPrediction is AnalyzePage.handleVoicePrediction, which closes the panel
VoiceResponse(i, outcome) ==
    /\ lastEvent' = "voiceResponse"
    /\ UNCHANGED <<storeVars, ruleVars, tableVars>>
    /\ i \in InFlight("voice")
    /\ IF outcome = "ok"
       THEN /\ prediction' = SetState(mounted, prediction, i)
            /\ showVoice' = SetState(mounted, showVoice, FALSE)
            /\ requests' = Deliver([requests EXCEPT ![i].status = "ok"], i)
       ELSE /\ requests' = [requests EXCEPT ![i].status = "failed"]
            /\ UNCHANGED <<prediction, showVoice>>
    /\ processing' = SetState(VoiceAlive(requests[i].inst), processing, FALSE)
    /\ UNCHANGED <<mounted, form, loading, error, voiceInst, listening, recog>>
    /\ UNCHANGED simVars

(***************************************************************************)
(* historyStore.  The item of localStorage is a text; a JSON value is a    *)
(* kind with the items of an array.                                        *)
(***************************************************************************)
\* localStorage.getItem returns null for a missing key
NoItem == [text |-> "absent", items |-> <<>>]

\* texts the store never writes: "", text that is no JSON, and the JSON
\* texts null, 5, {} and "x"
ForeignTexts == {[text |-> t, items |-> <<>>] :
                    t \in {"empty", "garbage", "null", "number", "object", "string"}}

JArray(items) == [kind |-> "array", items |-> items]
JNonArray(kind) == [kind |-> kind, items |-> <<>>]
Undefined == JNonArray("undefined")

\* faulty variant: the predictions are not written
JSONstringifyLossy(value) ==
    [text |-> "array",
     items |-> [k \in DOMAIN value.items |-> [value.items[k] EXCEPT !.prediction = "null"]]]

\* JSON.stringify of an array of records
JSONstringify(value) == [text |-> "array", items |-> value.items]

\* JSON.parse throws a SyntaxError on "" and on text that is no JSON
ParseThrows(raw) == raw.text \in {"empty", "garbage"}
JSONparse(raw) == [kind |-> raw.text, items |-> raw.items]

Digit(d) == CASE d = 0 -> "0" [] d = 1 -> "1" [] d = 2 -> "2" [] d = 3 -> "3"
              [] d = 4 -> "4" [] d = 5 -> "5" [] d = 6 -> "6" [] d = 7 -> "7"
              [] d = 8 -> "8" [] d = 9 -> "9"

\* the decimal text of a number, as a template string renders it
RECURSIVE Decimal(_)
Decimal(n) == IF n < 10 THEN <<Digit(n)>> ELSE Append(Decimal(n \div 10), Digit(n % 10))

\* Math.random().toString(36).slice(2, 8): up to six characters of 0-9a-z
Suffixes == {<<"2">>, <<"k", "3">>}

\* faulty variant: the id is the timestamp alone
generateIdNoSuffix(now, rnd) == Decimal(now)

\* generateId, with Date.now() = now and the random text rnd
generateId(now, rnd) == Decimal(now) \o <<"-">> \o rnd

RiskLabels == {"Low Risk", "Medium Risk", "High Risk"}

\* the arguments saveAnalysis is called with: a reservation, its prediction
\* (by its risk label) and the source
SaveArgs == {[input |-> "resA", prediction |-> "Low Risk", source |-> "analyze"],
             [input |-> "resB", prediction |-> "High Risk", source |-> "tables"]}

\* getHistory() when getItem returns raw: the parsed value is returned as it
\* is, whatever its kind
readHistory(raw) ==
    IF raw.text \in {"absent", "empty"} THEN JArray(<<>>)
    ELSE IF ParseThrows(raw) THEN JArray(<<>>)
    ELSE JSONparse(raw)

getHistory == readHistory(storage)

\* Array.prototype.unshift and filter exist on arrays only: on null, a
\* number, an object or a string the call throws a TypeError
IsArray(value) == value.kind = "array"

Ids(items) == {items[k].id : k \in DOMAIN items}

\* faulty variant: the record is put at the end
UnshiftAtEnd(items, record) == Append(items, record)

\* history.unshift(record)
Unshift(items, record) == <<record>> \o items

\* faulty variant: the history is never cut
TruncateNever(items) == items

\* faulty variant: the cut drops the records at the front
TruncateFront(items) ==
    IF Len(items) > MAX_RECORDS
    THEN SubSeq(items, Len(items) - MAX_RECORDS + 1, Len(items))
    ELSE items

\* `if (history.length > MAX_RECORDS) history.length = MAX_RECORDS'
Truncate(items) ==
    IF Len(items) > MAX_RECORDS THEN SubSeq(items, 1, MAX_RECORDS) ELSE items

\* faulty variant: the kept records come out in reverse order
RECURSIVE FilterOutReversing(_, _)
FilterOutReversing(items, id) ==
    IF items = <<>> THEN <<>>
    ELSE IF Head(items).id # id
         THEN Append(FilterOutReversing(Tail(items), id), Head(items))
         ELSE FilterOutReversing(Tail(items), id)

\* faulty variant: the record and everything after it is dropped
RECURSIVE FilterOutAfter(_, _)
FilterOutAfter(items, id) ==
    IF items = <<>> THEN <<>>
    ELSE IF Head(items).id # id THEN <<Head(items)>> \o FilterOutAfter(Tail(items), id)
         ELSE <<>>

\* faulty variant: only the first record with the id is removed
RECURSIVE FilterOutFirst(_, _)
FilterOutFirst(items, id) ==
    IF items = <<>> THEN <<>>
    ELSE IF Head(items).id # id THEN <<Head(items)>> \o FilterOutFirst(Tail(items), id)
         ELSE Tail(items)

\* Array.prototype.filter((r) => r.id !== id)
RECURSIVE FilterOut(_, _)
FilterOut(items, id) ==
    IF items = <<>> THEN <<>>
    ELSE IF Head(items).id # id THEN <<Head(items)>> \o FilterOut(Tail(items), id)
         ELSE FilterOut(Tail(items), id)

Threw(arg) == [threw |-> TRUE, value |-> Undefined, arg |-> arg]
Returned(value, arg) == [threw |-> FALSE, value |-> value, arg |-> arg]

StoreInit ==
    /\ storage = NoItem
    /\ clock = 1
    /\ serial = 0
    /\ sinceClear = 0
    /\ deletedSince = FALSE
    /\ returned = Returned(Undefined, <<>>)

\* a call of getHistory by a page
GetHistory ==
    /\ lastEvent' = "getHistory"
    /\ returned' = Returned(getHistory, <<>>)
    /\ UNCHANGED <<storage, clock, serial, sinceClear, deletedSince>>
    /\ UNCHANGED <<analyzeVars, ruleVars, tableVars>>

\* saveAnalysis(input, result, source) at millisecond `now', the random
\* text of generateId being rnd.  The field `serial' of a record numbers
\* the calls; `ms' and `rnd' keep what its id was made of.
saveAnalysis(input, result, source, now, rnd) ==
    /\ lastEvent' = "saveAnalysis"
    /\ serial < MaxSaves
    /\ serial' = serial + 1
    /\ clock' = now
    /\ LET record == [id |-> generateId(now, rnd), timestamp |-> now,
                      source |-> source, input |-> input, prediction |-> result,
                      serial |-> serial + 1, ms |-> now, rnd |-> rnd]
           history == getHistory
       IN  IF IsArray(history)
           THEN /\ storage' = JSONstringify(JArray(Truncate(Unshift(history.items, record))))
                /\ returned' = Returned(record, <<input, result, source>>)
                /\ sinceClear' = sinceClear + 1
           ELSE /\ returned' = Threw(<<input, result, source>>)
                /\ UNCHANGED <<storage, sinceClear>>
    /\ UNCHANGED deletedSince
    /\ UNCHANGED <<analyzeVars, ruleVars, tableVars>>

\* faulty variant: nothing is removed
clearHistoryNoop ==
    /\ lastEvent' = "clearHistory"
    /\ returned' = Returned(Undefined, <<>>)
    /\ UNCHANGED <<storage, sinceClear, deletedSince, clock, serial>>
    /\ UNCHANGED <<analyzeVars, ruleVars, tableVars>>

clearHistory ==
    /\ lastEvent' = "clearHistory"
    /\ storage' = NoItem
    /\ sinceClear' = 0
    /\ deletedSince' = FALSE
    /\ returned' = Returned(Undefined, <<>>)
    /\ UNCHANGED <<clock, serial>>
    /\ UNCHANGED <<analyzeVars, ruleVars, tableVars>>

deleteRecord(id) ==
    /\ lastEvent' = "deleteRecord"
    /\ LET history == getHistory
       IN  IF IsArray(history)
           THEN /\ storage' = JSONstringify(JArray(FilterOut(history.items, id)))
                /\ returned' = Returned(Undefined, id)
                /\ deletedSince' = (deletedSince \/ id \in Ids(history.items))
           ELSE /\ returned' = Threw(id)
                /\ UNCHANGED <<storage, deletedSince>>
    /\ UNCHANGED <<clock, serial, sinceClear>>
    /\ UNCHANGED <<analyzeVars, ruleVars, tableVars>>

\* an id no record has
AbsentId == <<"0", "-">>

HistNext ==
    \/ GetHistory
    \/ \E a \in SaveArgs, now \in clock..MaxTime, rnd \in Suffixes :
          saveAnalysis(a.input, a.prediction, a.source, now, rnd)
    \/ clearHistory
    \/ \E id \in Ids(getHistory.items) \cup {AbsentId} : deleteRecord(id)

(***************************************************************************)
(* deriveActions.  A string is a sequence of characters.                   *)
(***************************************************************************)
UpperCase == <<"A", "B", "C", "D", "E", "F", "G", "H", "I", "J", "K", "L", "M",
               "N", "O", "P", "Q", "R", "S", "T", "U", "V", "W", "X", "Y", "Z">>
LowerCase == <<"a", "b", "c", "d", "e", "f", "g", "h", "i", "j", "k", "l", "m",
               "n", "o", "p", "q", "r", "s", "t", "u", "v", "w", "x", "y", "z">>

ToLowerChar(c) ==
    IF \E k \in DOMAIN UpperCase : UpperCase[k] = c
    THEN LowerCase[CHOOSE k \in DOMAIN UpperCase : UpperCase[k] = c]
    ELSE c

\* String.prototype.toLowerCase
ToLowerCase(s) == [k \in DOMAIN s |-> ToLowerChar(s[k])]

\* the string literals of deriveActions
HIGH_RISK == "High Risk"
LitBirthday == <<"b", "i", "r", "t", "h", "d", "a", "y">>
LitAllergyAlert == <<"a", "l", "l", "e", "r", "g", "y", " ", "a", "l", "e", "r", "t">>
LitNutAllergy == <<"n", "u", "t", " ", "a", "l", "l", "e", "r", "g", "y">>
LitAssign == <<"A", "s", "s", "i", "g", "n", " ">>
LitPreferredSeat == <<"P", "r", "e", "f", "e", "r", "r", "e", "d", " ", "S", "e", "a", "t">>

RequestDeposit == [label |-> <<"R", "e", "q", "u", "e", "s", "t", " ", "D", "e", "p", "o", "s", "i", "t", " ", "(", "$", "5", "0", ")">>, icon |-> "ShieldAlert"]
AlertPastryChef == [label |-> <<"A", "l", "e", "r", "t", " ", "P", "a", "s", "t", "r", "y", " ", "C", "h", "e", "f">>, icon |-> "Cake"]
PrepSpecialSetup == [label |-> <<"P", "r", "e", "p", " ", "S", "p", "e", "c", "i", "a", "l", " ", "S", "e", "t", "u", "p">>, icon |-> "Cake"]
AssignSeat(seat) == [label |-> LitAssign \o seat, icon |-> "Armchair"]
AlertKitchen == [label |-> <<"A", "l", "e", "r", "t", " ", "K", "i", "t", "c", "h", "e", "n", ":", " ", "A", "l", "l", "e", "r", "g", "y">>, icon |-> "AlertTriangle"]
SendDietaryCard == [label |-> <<"S", "e", "n", "d", " ", "D", "i", "e", "t", "a", "r", "y", " ", "C", "a", "r", "d">>, icon |-> "Leaf"]
VIPProtocol == [label |-> <<"V", "I", "P", " ", "P", "r", "o", "t", "o", "c", "o", "l">>, icon |-> "Star"]
PrepHighChair == [label |-> <<"P", "r", "e", "p", " ", "H", "i", "g", "h", " ", "C", "h", "a", "i", "r">>, icon |-> "Baby"]
StandardService == [label |-> <<"S", "t", "a", "n", "d", "a", "r", "d", " ", "S", "e", "r", "v", "i", "c", "e">>, icon |-> "UtensilsCrossed"]

\* the smart tags a prediction may carry: label and category as the
\* backend sends them
TagPool ==
    {[label |-> <<"B", "i", "r", "t", "h", "d", "a", "y">>, category |-> "Occasion"],
     [label |-> <<"G", "a", "l", "a">>, category |-> "Occasion"],
     [label |-> <<"B", "o", "o", "t", "h">>, category |-> "Seating"],
     [label |-> <<"P", "a", "t", "i", "o">>, category |-> "Seating"],
     [label |-> <<"N", "u", "t", " ", "A", "l", "l", "e", "r", "g", "y">>, category |-> "Dietary"],
     [label |-> <<"S", "h", "e", "l", "l", "f", "i", "s", "h", " ", "A", "l", "l", "e", "r", "g", "y">>, category |-> "Dietary"],
     [label |-> <<"V", "e", "g", "a", "n">>, category |-> "Dietary"],
     [label |-> <<"V", "I", "P">>, category |-> "Status"],
     [label |-> <<"K", "i", "d", "s">>, category |-> "Family"]}

TagLists == UNION {[1..n -> TagPool] : n \in 0..MaxTags}

\* the predictions given to deriveActions; has_tags is false when the
\* smart_tags field is missing
Predictions ==
    {[risk_label |-> r, smart_tags |-> ts, has_tags |-> TRUE] :
        r \in RiskLabels, ts \in TagLists}
    \cup {[risk_label |-> r, smart_tags |-> <<>>, has_tags |-> FALSE] : r \in RiskLabels}

\* `prediction.smart_tags || []'
TagsOf(p) == IF p.has_tags THEN p.smart_tags ELSE <<>>

\* new Set(tags.map((t) => t.category))
Categories(tags) == {tags[k].category : k \in DOMAIN tags}

\* new Set(tags.map((t) => t.label.toLowerCase()))
Labels(tags) == {ToLowerCase(tags[k].label) : k \in DOMAIN tags}

\* faulty variant: the last Seating tag is taken
FindSeatingLast(tags) ==
    tags[CHOOSE k \in DOMAIN tags :
            /\ tags[k].category = "Seating"
            /\ \A j \in (k + 1)..Len(tags) : tags[j].category # "Seating"]

\* tags.find((t) => t.category === "Seating"): the first such tag
FindSeating(tags) ==
    tags[CHOOSE k \in DOMAIN tags :
            /\ tags[k].category = "Seating"
            /\ \A j \in 1..(k - 1) : tags[j].category # "Seating"]

\* faulty variant: the action is pushed whatever the condition
PushAlways(acts, cond, action) == Append(acts, action)

\* faulty variant: the action is put in front of the earlier ones
PushFront(acts, cond, action) == IF cond THEN <<action>> \o acts ELSE acts

\* one rule: actions.push(action) when its condition holds
Push(acts, cond, action) == IF cond THEN Append(acts, action) ELSE acts

\* faulty variant: no fallback
FallbackNever(acts) == acts

\* `if (actions.length === 0) actions.push(Standard Service)'
Fallback(acts) == IF Len(acts) = 0 THEN Append(acts, StandardService) ELSE acts

deriveActions(p) ==
    LET tags == TagsOf(p)
        categories == Categories(tags)
        labels == Labels(tags)
        hasBirthday == LitBirthday \in labels
        hasAllergy == LitAllergyAlert \in labels \/ LitNutAllergy \in labels
        seat == IF \E k \in DOMAIN tags : tags[k].category = "Seating"
                THEN FindSeating(tags).label ELSE LitPreferredSeat
        a1 == Push(<<>>, p.risk_label = HIGH_RISK, RequestDeposit)
        a2 == Push(a1, "Occasion" \in categories,
                   IF hasBirthday THEN AlertPastryChef ELSE PrepSpecialSetup)
        a3 == Push(a2, "Seating" \in categories, AssignSeat(seat))
        a4 == Push(a3, "Dietary" \in categories,
                   IF hasAllergy THEN AlertKitchen ELSE SendDietaryCard)
        a5 == Push(a4, "Status" \in categories, VIPProtocol)
        a6 == Push(a5, "Family" \in categories, PrepHighChair)
    IN  Fallback(a6)

\* SmartActions renders a prediction: one call of deriveActions
Derive ==
    /\ lastEvent # "deriveActions"
    /\ lastEvent' = "deriveActions"
    /\ actions' = deriveActions(pred)
    /\ UNCHANGED pred
    /\ UNCHANGED <<analyzeVars, storeVars, tableVars>>

RuleNext == Derive

(***************************************************************************)
(* TableViewPage: predictAll and predictForGuest save what they predict.   *)
(***************************************************************************)
\* the reservations loaded, by reservation_id
ResIds == 1..MaxRes

\* the prediction the backend gives for a reservation
PredictionOf(res) == IF res = 1 THEN "Low Risk" ELSE "High Risk"

TableInit ==
    /\ batchLoading = FALSE
    /\ predictions = {}
    /\ flows = {}

Reverse(seq) == [k \in DOMAIN seq |-> seq[Len(seq) + 1 - k]]

\* the record saveAnalysis builds for a reservation, as call number n
RecordOf(res, n, now, rnd) ==
    [id |-> generateId(now, rnd), timestamp |-> now, source |-> "tables",
     input |-> res, prediction |-> PredictionOf(res),
     serial |-> n, ms |-> now, rnd |-> rnd]

\* the text saveAnalysis writes for a record when getItem returned raw
Persist(raw, record) ==
    JSONstringify(JArray(Truncate(Unshift(readHistory(raw).items, record))))

\* faulty variant: every save of the loop writes onto the history read
\* before the loop
SaveAllFromSnapshot(raw, records) ==
    IF records = <<>> THEN raw ELSE Persist(raw, records[Len(records)])

\* results.forEach(... saveAnalysis(reservations[i], p, "tables")): one
\* synchronous save after the other
RECURSIVE SaveAll(_, _)
SaveAll(raw, records) ==
    IF records = <<>> THEN raw
    ELSE SaveAll(Persist(raw, Head(records)), Tail(records))

\* the "Predict All" button: predictAll up to its await
PredictAll ==
    /\ lastEvent' = "predictAll"
    /\ ~batchLoading
    /\ predictions # ResIds
    /\ batchLoading' = TRUE
    /\ flows' = flows \cup {[kind |-> "batch", res |-> 0]}
    /\ UNCHANGED predictions
    /\ UNCHANGED <<analyzeVars, storeVars, ruleVars>>

\* predictAll after its await: the forEach over the results, then finally
BatchResponse(f, outcome, now, rnds) ==
    /\ lastEvent' = "batchResponse"
    /\ f \in flows
    /\ f.kind = "batch"
    /\ flows' = flows \ {f}
    /\ batchLoading' = FALSE
    /\ IF outcome = "ok" /\ IsArray(getHistory)
       THEN LET records == [k \in ResIds |-> RecordOf(k, serial + k, now, rnds[k])]
            IN  /\ serial + MaxRes <= MaxSaves
                /\ storage' = SaveAll(storage, records)
                /\ returned' = Returned(records, <<>>)
                /\ serial' = serial + MaxRes
                /\ sinceClear' = sinceClear + MaxRes
                /\ clock' = now
                /\ predictions' = ResIds
       ELSE /\ returned' = IF outcome = "ok" THEN Threw(<<>>) ELSE Returned(<<>>, <<>>)
            /\ UNCHANGED <<storage, serial, sinceClear, clock, predictions>>
    /\ UNCHANGED deletedSince
    /\ UNCHANGED <<analyzeVars, ruleVars>>

\* a click on a reservation without a prediction: predictForGuest up to
\* its await
PredictForGuest(res) ==
    /\ lastEvent' = "predictForGuest"
    /\ res \notin predictions
    /\ [kind |-> "single", res |-> res] \notin flows
    /\ flows' = flows \cup {[kind |-> "single", res |-> res]}
    /\ UNCHANGED <<batchLoading, predictions>>
    /\ UNCHANGED <<analyzeVars, storeVars, ruleVars>>

\* predictForGuest after its await
SingleResponse(f, outcome, now, rnd) ==
    /\ lastEvent' = "singleResponse"
    /\ f \in flows
    /\ f.kind = "single"
    /\ flows' = flows \ {f}
    /\ IF outcome = "ok" /\ IsArray(getHistory)
       THEN LET records == <<RecordOf(f.res, serial + 1, now, rnd)>>
            IN  /\ serial < MaxSaves
                /\ storage' = SaveAll(storage, records)
                /\ returned' = Returned(records, <<>>)
                /\ serial' = serial + 1
                /\ sinceClear' = sinceClear + 1
                /\ clock' = now
                /\ predictions' = predictions \cup {f.res}
       ELSE /\ returned' = IF outcome = "ok" THEN Threw(<<>>) ELSE Returned(<<>>, <<>>)
            /\ predictions' = IF outcome = "ok" THEN predictions \cup {f.res}
                              ELSE predictions
            /\ UNCHANGED <<storage, serial, sinceClear, clock>>
    /\ UNCHANGED <<batchLoading, deletedSince>>
    /\ UNCHANGED <<analyzeVars, ruleVars>>

FlowNext ==
    \/ PredictAll
    \/ \E f \in flows, outcome \in Outcomes, now \in clock..MaxTime,
          rnds \in [ResIds -> Suffixes] : BatchResponse(f, outcome, now, rnds)
    \/ \E res \in ResIds : PredictForGuest(res)
    \/ \E f \in flows, outcome \in Outcomes, now \in clock..MaxTime,
          rnd \in Suffixes : SingleResponse(f, outcome, now, rnd)
    \/ clearHistory
    \/ \E id \in Ids(getHistory.items) \cup {AbsentId} : deleteRecord(id)

RuleInit ==
    /\ pred = [risk_label |-> "Low Risk", smart_tags |-> <<>>, has_tags |-> TRUE]
    /\ actions = <<>>

Init == AnalyzeInit /\ StoreInit /\ RuleInit /\ TableInit

Next ==
    \/ \E v \in Texts : UpdateGuestName(v)
    \/ HandleSubmit
    \/ \E i \in ReqIds, o \in Outcomes : SubmitResponse(i, o)
    \/ ToggleVoice
    \/ Unmount
    \/ \E val \in LeadTimes : handleLeadTime(val)
    \/ \E t \in timers : TimerFire(t)
    \/ \E i \in ReqIds, o \in Outcomes : SimResponse(i, o)
    \/ StartListening
    \/ \E inst \in recog, text \in Texts : RecognitionEnd(inst, text)
    \/ \E i \in ReqIds, o \in Outcomes : VoiceResponse(i, o)

Spec == Init /\ [][Next]_vars

SimNext ==
    \/ \E v \in Texts : UpdateGuestName(v)
    \/ HandleSubmit
    \/ \E i \in ReqIds, o \in Outcomes : SubmitResponse(i, o)
    \/ Unmount
    \/ \E val \in LeadTimes : handleLeadTime(val)
    \/ \E t \in timers : TimerFire(t)
    \/ \E i \in ReqIds, o \in Outcomes : SimResponse(i, o)

\* the page without the voice panel: the form, explicit submit and the
\* simulator sliders
SimSpec == Init /\ [][SimNext]_vars

\* the history store, from an empty localStorage
HistSpec == Init /\ [][HistNext]_vars

\* the history store, from a localStorage item of any content
ForeignInit ==
    /\ AnalyzeInit
    /\ RuleInit
    /\ TableInit
    /\ storage \in ForeignTexts \cup {NoItem}
    /\ clock = 1
    /\ serial = 0
    /\ sinceClear = 0
    /\ deletedSince = FALSE
    /\ returned = Returned(Undefined, <<>>)

\* the table view's flows in any interleaving, with the history page's
\* deletions in between
FlowSpec == Init /\ [][FlowNext]_vars

\* deriveActions on any prediction
RuleInputs ==
    /\ AnalyzeInit
    /\ StoreInit
    /\ TableInit
    /\ pred \in Predictions
    /\ actions = <<>>

RuleSpec == RuleInputs /\ [][RuleNext]_vars

ForeignSpec == ForeignInit /\ [][HistNext]_vars

(***************************************************************************)
(* Vocabulary of the properties.                                           *)
(***************************************************************************)
\* the text is empty or consists of whitespace only
WhitespaceOnly(s) == \A k \in DOMAIN s : s[k] = " "

SimReqs == {i \in ReqIds : requests[i].producer = "sim"}

\* this step issues a network call on behalf of producer p
Issues(p) ==
    /\ Len(requests') = Len(requests) + 1
    /\ requests'[Len(requests')].producer = p

\* this step hands the response of request i to the page
Delivers(i) == requests'[i].delivered > requests[i].delivered

FailureMessages == {ErrorMessage(o) : o \in Outcomes \ {"ok"}}

(***************************************************************************)
(* C1  Stale discard: once a simulator request R1 is superseded by a later *)
(* triggerSimulation call and a request R2 was issued after it, R1's       *)
(* response is never handed to onPrediction, whenever it arrives.          *)
(***************************************************************************)
C1_StaleDiscard ==
    [][\A i \in SimReqs :
          (i \in aborted /\ \E j \in SimReqs : j > i) => ~Delivers(i)]_vars

(***************************************************************************)
(* C2  At most one simulator request is in flight and not cancelled, in    *)
(* every reachable state.                                                  *)
(***************************************************************************)
C2_SingleActiveRequest ==
    Cardinality({i \in InFlight("sim") : ~Cancelled(i)}) <= 1

(***************************************************************************)
(* C3  Debounce collapse: whenever the simulator issues a network call, it *)
(* is issued by the timer of the latest triggerSimulation call, carries    *)
(* the form passed to that call, no other call was or will be issued for   *)
(* that timer, and no earlier timer is left pending.                       *)
(***************************************************************************)
C3_DebounceCollapse ==
    [][Issues("sim") =>
          LET r == requests'[Len(requests')]
          IN  /\ r.timer = debounceRef
              /\ r.payload = lastCall
              /\ \A i \in SimReqs : requests[i].timer # r.timer
              /\ timers' = {}]_vars

\* two calls were made, and the one network call issued is that of the second
C3_Witness ==
    /\ debounceRef = 2
    /\ Cardinality(SimReqs) = 1
    /\ \E i \in SimReqs : requests[i].timer = 2 /\ requests[i].payload = lastCall

(***************************************************************************)
(* C4  Whenever a response is written to the page's prediction state, it   *)
(* is the response of the most recently initiated request of the three     *)
(* producers.                                                              *)
(***************************************************************************)
C4_FreshestShown ==
    [][(prediction' # prediction /\ prediction' # 0) => prediction' = Len(requests)]_vars

(***************************************************************************)
(* C5  Immediate mode: an explicit submit that issues its network call     *)
(* cancels the pending debounce timer of the simulator.                    *)
(***************************************************************************)
C5_SubmitCancelsTimer ==
    [][Issues("submit") => timers' = {}]_vars

(***************************************************************************)
(* C6  Teardown: after the unmount no timer issues a network call and no   *)
(* response of a simulator request is handed to onPrediction.              *)
(***************************************************************************)
C6_Teardown ==
    [][~mounted => /\ ~Issues("sim")
                   /\ \A i \in SimReqs : ~Delivers(i)]_vars

(***************************************************************************)
(* C7  Delivery on success: a simulator request that was not superseded,   *)
(* in a mounted component, has been handed to onPrediction exactly once    *)
(* when it has returned successfully, and not at all otherwise.            *)
(***************************************************************************)
C7_DeliveredOnce ==
    \A i \in SimReqs :
        (mounted /\ i \notin aborted) =>
            requests[i].delivered = IF requests[i].status = "ok" THEN 1 ELSE 0

C7_Witness ==
    \E i \in SimReqs :
        /\ mounted
        /\ i \notin aborted
        /\ requests[i].status = "ok"
        /\ requests[i].delivered = 1
        /\ prediction = i

(***************************************************************************)
(* C8  Delivery on failure: when a simulator request that was not          *)
(* superseded fails, a failure message reaches the error state shown to    *)
(* the user.                                                               *)
(***************************************************************************)
C8_FailureSurfaced ==
    [][\A i \in SimReqs :
          (/\ i \notin aborted
           /\ requests[i].status = "inflight"
           /\ requests'[i].status = "failed") => error' \in FailureMessages]_vars

(***************************************************************************)
(* C9  A triggerSimulation call with an empty or whitespace-only guest     *)
(* name changes nothing of the scheduler: no timer, no network call, no    *)
(* error, the timer handle and the in-flight requests as they were.        *)
(***************************************************************************)
C9_BlankTriggerNoop ==
    [][(lastEvent' = "handleLeadTime" /\ WhitespaceOnly(form.guest_name)) =>
          UNCHANGED <<timers, debounceRef, abortRef, aborted, lastCall,
                      requests, simulating, error, prediction>>]_vars

\* a blank call was made while the timer of an earlier call was pending
C9_Witness ==
    /\ lastEvent = "handleLeadTime"
    /\ WhitespaceOnly(form.guest_name)
    /\ \E t \in timers : t.form.booking_advance_days # form.booking_advance_days

(***************************************************************************)
(* C10  An explicit submit with an empty or whitespace-only guest name     *)
(* shows the validation message, issues no network call, leaves loading    *)
(* false and the prediction as it was.                                     *)
(***************************************************************************)
C10_BlankSubmit ==
    [][(lastEvent' = "handleSubmit" /\ WhitespaceOnly(form.guest_name)) =>
          /\ error' = ValidationMsg
          /\ requests' = requests
          /\ loading' = FALSE
          /\ prediction' = prediction]_vars

\* a blank submit was made while a prediction was shown
C10_Witness ==
    /\ lastEvent = "handleSubmit"
    /\ WhitespaceOnly(form.guest_name)
    /\ error = ValidationMsg
    /\ prediction # 0
    /\ ~loading

\* the requests of the mounted VoiceCommand instance that are in flight
VoiceInFlight == {i \in InFlight("voice") : requests[i].inst = voiceInst}

(***************************************************************************)
(* C11  No stuck loading state: while the page is shown, a producer        *)
(* (explicit submit, the simulator, the voice panel) none of whose         *)
(* requests is in flight has its indicator (loading, simulating,           *)
(* processing) false, however its requests ended.                          *)
(***************************************************************************)
C11_NoStuckLoading ==
    mounted =>
        /\ InFlight("submit") = {} => ~loading
        /\ InFlight("sim") = {} => ~simulating
        /\ (showVoice /\ VoiceInFlight = {}) => ~processing

\* a request failed, every request has completed and the page is shown
C11_Witness ==
    /\ mounted
    /\ lastEvent \in {"submitResponse", "simResponse", "voiceResponse"}
    /\ Len(requests) = MaxReq
    /\ \A i \in ReqIds : requests[i].status # "inflight"
    /\ \E i \in ReqIds : requests[i].status = "failed"
    /\ \E i, j \in ReqIds : requests[i].producer # requests[j].producer
    /\ ~loading /\ ~simulating /\ ~processing

(***************************************************************************)
(* Vocabulary of the history claims.                                       *)
(***************************************************************************)
\* the records getHistory() returns now, and after the step
History == getHistory.items
HistoryAfter == readHistory(storage').items

Min(a, b) == IF a < b THEN a ELSE b

\* the call numbers of the records of a history
Serials(items) == {items[k].serial : k \in DOMAIN items}

(***************************************************************************)
(* C12  Starting from empty storage, after any sequence of saveAnalysis,   *)
(* deleteRecord and clearHistory calls the persisted history holds at most *)
(* MAX_RECORDS records.                                                    *)
(***************************************************************************)
C12_Capacity == Len(History) <= MAX_RECORDS

\* one record more than the capacity was saved, and the history is full
C12_Witness ==
    /\ lastEvent = "saveAnalysis"
    /\ sinceClear = MAX_RECORDS + 1
    /\ ~deletedSince
    /\ Len(History) = MAX_RECORDS

(***************************************************************************)
(* C13  After n saveAnalysis calls on an empty history, with no deletion,  *)
(* getHistory returns the min(n, MAX_RECORDS) most recently saved records, *)
(* newest first; saveAnalysis drops a record only from a full history, and *)
(* then the oldest one alone.                                              *)
(***************************************************************************)
C13_NewestKept ==
    /\ [](~deletedSince =>
            /\ Len(History) = Min(sinceClear, MAX_RECORDS)
            /\ \A k \in DOMAIN History : History[k].serial = serial - k + 1)
    /\ [][lastEvent' = "saveAnalysis" =>
            LET evicted == Serials(History) \ Serials(HistoryAfter)
            IN  evicted # {} =>
                    /\ Len(History) = MAX_RECORDS
                    /\ evicted = {History[Len(History)].serial}
                    /\ \A k \in DOMAIN History :
                          History[k].serial >= History[Len(History)].serial]_vars

\* capacity + 2 records were saved in a row
C13_Witness ==
    /\ lastEvent = "saveAnalysis"
    /\ sinceClear = MAX_RECORDS + 2
    /\ ~deletedSince
    /\ Len(History) = MAX_RECORDS
    /\ History[1].serial = serial
    /\ History[MAX_RECORDS].serial = serial - MAX_RECORDS + 1

(***************************************************************************)
(* C14  Right after saveAnalysis(input, prediction, source) returned the   *)
(* record r, getHistory() returns r (the record of these arguments) first, *)
(* followed by the previous history in its order, cut to MAX_RECORDS - 1   *)
(* records.                                                                *)
(***************************************************************************)
C14_AppendThenList ==
    [][lastEvent' = "saveAnalysis" =>
          LET r == returned'.value
          IN  /\ ~returned'.threw
              /\ returned'.arg = <<r.input, r.prediction, r.source>>
              /\ HistoryAfter # <<>>
              /\ Head(HistoryAfter) = r
              /\ Head(HistoryAfter).id = r.id
              /\ Head(HistoryAfter).timestamp = r.timestamp
              /\ Tail(HistoryAfter) =
                    SubSeq(History, 1, Min(Len(History), MAX_RECORDS - 1))]_vars

\* a record was saved onto a full history holding a record of other arguments
C14_Witness ==
    /\ lastEvent = "saveAnalysis"
    /\ ~returned.threw
    /\ sinceClear > MAX_RECORDS
    /\ Len(History) = MAX_RECORDS
    /\ History[1] = returned.value
    /\ History[2].input # History[1].input

(***************************************************************************)
(* C15  After deleteRecord(id), getHistory() holds no record with that id; *)
(* when no record had the id, deleteRecord raises no error and             *)
(* getHistory() returns the same sequence as before the call.              *)
(***************************************************************************)
C15_RemoveById ==
    [][lastEvent' = "deleteRecord" =>
          LET id == returned'.arg
          IN  /\ id \notin Ids(HistoryAfter)
              /\ id \notin Ids(History) =>
                    /\ ~returned'.threw
                    /\ HistoryAfter = History]_vars

\* a record was removed from a history that keeps another one
C15_Witness ==
    /\ lastEvent = "deleteRecord"
    /\ ~returned.threw
    /\ deletedSince
    /\ returned.arg # AbsentId
    /\ returned.arg \notin Ids(History)
    /\ History # <<>>

(***************************************************************************)
(* C16  After clearHistory(), getHistory() returns the empty sequence,     *)
(* whatever was stored before, and a saveAnalysis that follows leaves a    *)
(* history of exactly one record, the one it returned.                     *)
(***************************************************************************)
C16_Clear ==
    [][/\ lastEvent' = "clearHistory" =>
             /\ ~returned'.threw
             /\ readHistory(storage') = JArray(<<>>)
       /\ (lastEvent = "clearHistory" /\ lastEvent' = "saveAnalysis") =>
             /\ ~returned'.threw
             /\ readHistory(storage') = JArray(<<returned'.value>>)]_vars

\* the last of several saves came after a clear
C16_Witness ==
    /\ lastEvent = "saveAnalysis"
    /\ serial = MaxSaves
    /\ sinceClear = 1
    /\ ~deletedSince
    /\ Len(History) = 1

\* the stored text is not what the store writes: it is no JSON, or JSON
\* that is not an array
Malformed(raw) == raw \in ForeignTexts /\ raw.text # "empty"

(***************************************************************************)
(* C17  getHistory never fails and returns an empty sequence whenever the  *)
(* storage key is absent, holds an empty string, or holds corrupted        *)
(* content: text that is no JSON, or JSON that is not an array.            *)
(***************************************************************************)
C17_CorruptedIsEmpty ==
    (lastEvent = "getHistory" /\ storage \in ForeignTexts \cup {NoItem}) =>
        /\ ~returned.threw
        /\ returned.value = JArray(<<>>)

(***************************************************************************)
(* C18  When the persisted history is malformed, saveAnalysis and          *)
(* deleteRecord complete without throwing and treat the store as empty:    *)
(* after saveAnalysis the history is the new record alone, after           *)
(* deleteRecord it is empty.                                               *)
(***************************************************************************)
C18_WriteRecovers ==
    [][Malformed(storage) =>
          /\ lastEvent' = "saveAnalysis" =>
                /\ ~returned'.threw
                /\ readHistory(storage') = JArray(<<returned'.value>>)
          /\ lastEvent' = "deleteRecord" =>
                /\ ~returned'.threw
                /\ readHistory(storage') = JArray(<<>>)]_vars

(***************************************************************************)
(* C19 as stated: in every reachable state the records getHistory()        *)
(* returns have pairwise distinct ids, records saved within the same       *)
(* millisecond included.                                                   *)
(***************************************************************************)
C19_UniqueIds ==
    \A i, j \in DOMAIN History : i # j => History[i].id # History[j].id

(***************************************************************************)
(* C19  Two records getHistory() returns have the same id only when they   *)
(* were saved in the same millisecond and Math.random gave the same text   *)
(* for both: records of different milliseconds, and records of the same    *)
(* millisecond with different random texts, have distinct ids.             *)
(***************************************************************************)
C19_UniqueUnlessSameDraw ==
    \A i, j \in DOMAIN History :
        (History[i].ms # History[j].ms \/ History[i].rnd # History[j].rnd)
            => History[i].id # History[j].id

\* two records saved in the same millisecond with different random texts
C19_Witness ==
    \E i, j \in DOMAIN History :
        /\ History[i].ms = History[j].ms
        /\ History[i].rnd # History[j].rnd
        /\ History[i].id # History[j].id

(***************************************************************************)
(* C20  deriveActions never returns an empty list: for every risk label    *)
(* and every tag list, a missing smart_tags field included, the result has *)
(* at least one action.                                                    *)
(***************************************************************************)
C20_NeverEmpty == lastEvent = "deriveActions" => Len(actions) >= 1

\* the fallback case: no tags field, not High Risk
C20_Witness ==
    /\ lastEvent = "deriveActions"
    /\ ~pred.has_tags
    /\ pred.risk_label # HIGH_RISK
    /\ actions = <<StandardService>>

(***************************************************************************)
(* Vocabulary of the action-rule claims.                                   *)
(***************************************************************************)
\* the tags of the prediction, read from the input itself
GivenTags == IF pred.has_tags THEN pred.smart_tags ELSE <<>>

HasCategory(c) == \E k \in DOMAIN GivenTags : GivenTags[k].category = c

\* the rule an action belongs to, told by its icon; 7 is the fallback
RuleOf(a) ==
    CASE a.icon = "ShieldAlert" -> 1
      [] a.icon = "Cake" -> 2
      [] a.icon = "Armchair" -> 3
      [] a.icon \in {"AlertTriangle", "Leaf"} -> 4
      [] a.icon = "Star" -> 5
      [] a.icon = "Baby" -> 6
      [] a.icon = "UtensilsCrossed" -> 7

\* the rules whose condition holds for the prediction
RulesThatHold ==
    {n \in 1..6 :
        \/ n = 1 /\ pred.risk_label = "High Risk"
        \/ n = 2 /\ HasCategory("Occasion")
        \/ n = 3 /\ HasCategory("Seating")
        \/ n = 4 /\ HasCategory("Dietary")
        \/ n = 5 /\ HasCategory("Status")
        \/ n = 6 /\ HasCategory("Family")}

(***************************************************************************)
(* C21  For every prediction whose tag list is empty or absent and whose   *)
(* risk label is not "High Risk", deriveActions returns exactly one        *)
(* action, the "Standard Service" fallback.                                *)
(***************************************************************************)
C21_FallbackOnly ==
    (lastEvent = "deriveActions" /\ GivenTags = <<>> /\ pred.risk_label # "High Risk")
        => actions = <<StandardService>>

\* the fallback was returned for an empty tag list that is present
C21_Witness ==
    /\ lastEvent = "deriveActions"
    /\ pred.has_tags
    /\ pred.smart_tags = <<>>
    /\ pred.risk_label = "Medium Risk"
    /\ Len(actions) = 1
    /\ actions[1].icon = "UtensilsCrossed"

(***************************************************************************)
(* C22  The actions deriveActions returns, the fallback aside, are those   *)
(* of the rules (1 deposit on High Risk, 2 Occasion, 3 Seating, 4 Dietary, *)
(* 5 Status, 6 Family) whose condition holds, each once, in rule order     *)
(* whatever the order of the tags; the fallback is returned only when no   *)
(* rule holds.                                                             *)
(***************************************************************************)
C22_PriorityOrder ==
    lastEvent = "deriveActions" =>
        /\ {RuleOf(actions[k]) : k \in DOMAIN actions} \ {7} = RulesThatHold
        /\ \A j, k \in DOMAIN actions : j < k => RuleOf(actions[j]) < RuleOf(actions[k])
        /\ (\E k \in DOMAIN actions : RuleOf(actions[k]) = 7) <=> RulesThatHold = {}

\* High Risk with a Status tag listed before an Occasion tag
C22_Witness ==
    /\ lastEvent = "deriveActions"
    /\ pred.risk_label = "High Risk"
    /\ Len(GivenTags) = 2
    /\ GivenTags[1].category = "Status"
    /\ GivenTags[2].category = "Occasion"
    /\ Len(actions) = 3
    /\ actions[1] = RequestDeposit
    /\ actions[3] = VIPProtocol

\* the positions of the Seating tags in the input
SeatingAt == {k \in DOMAIN GivenTags : GivenTags[k].category = "Seating"}

(***************************************************************************)
(* C23  When one or more tags have category "Seating", deriveActions       *)
(* returns exactly one seat-assignment action, labelled "Assign " followed *)
(* by the label of the first Seating tag in input order; later Seating     *)
(* tags do not change it.                                                  *)
(***************************************************************************)
C23_SeatingRule ==
    (lastEvent = "deriveActions" /\ SeatingAt # {}) =>
        LET first == CHOOSE k \in SeatingAt : \A j \in SeatingAt : k <= j
            seats == {k \in DOMAIN actions : actions[k].icon = "Armchair"}
        IN  /\ Cardinality(seats) = 1
            /\ \A k \in seats : actions[k].label = LitAssign \o GivenTags[first].label

\* two Seating tags with different labels
C23_Witness ==
    /\ lastEvent = "deriveActions"
    /\ Cardinality(SeatingAt) = 2
    /\ GivenTags[1].label # GivenTags[2].label
    /\ \E k \in DOMAIN actions : actions[k] = AssignSeat(GivenTags[1].label)

\* the text `word' occurs in the text s
Contains(s, word) ==
    \E k \in 0..(Len(s) - Len(word)) : SubSeq(s, k + 1, k + Len(word)) = word

\* a tag labelled as an allergy, in any letter case
AllergyLabeled(tag) == Contains(ToLowerCase(tag.label), <<"a", "l", "l", "e", "r", "g", "y">>)

(***************************************************************************)
(* C24  When any tag has category "Dietary", deriveActions returns exactly *)
(* one of the two dietary actions: the allergy kitchen alert if an         *)
(* allergy-labelled tag is among the tags, the generic dietary card        *)
(* otherwise; never both and never neither.                                *)
(***************************************************************************)
C24_DietaryRule ==
    (lastEvent = "deriveActions" /\ HasCategory("Dietary")) =>
        LET dietary == {k \in DOMAIN actions : RuleOf(actions[k]) = 4}
            allergy == \E k \in DOMAIN GivenTags : AllergyLabeled(GivenTags[k])
        IN  /\ Cardinality(dietary) = 1
            /\ \A k \in dietary :
                  actions[k] = IF allergy THEN AlertKitchen ELSE SendDietaryCard

(***************************************************************************)
(* C25  No lost history updates: however the responses of predictAll and   *)
(* predictForGuest calls interleave, the records a flow saves are in the   *)
(* history right after it, newest first, in front of everything that was   *)
(* there; a record leaves the history only by the cut to MAX_RECORDS, by   *)
(* deleteRecord with its id, or by clearHistory.                           *)
(***************************************************************************)
C25_NoLostUpdate ==
    [][/\ (lastEvent' \in {"batchResponse", "singleResponse"} /\ ~returned'.threw) =>
             LET all == Reverse(returned'.value) \o History
             IN  HistoryAfter = SubSeq(all, 1, Min(Len(all), MAX_RECORDS))
       /\ \A k \in DOMAIN History :
             History[k].serial \notin Serials(HistoryAfter) =>
                \/ lastEvent' = "clearHistory"
                \/ lastEvent' = "deleteRecord" /\ returned'.arg = History[k].id
                \/ /\ lastEvent' \in {"batchResponse", "singleResponse"}
                   /\ k + Len(returned'.value) > MAX_RECORDS]_vars

\* a single prediction was saved on top of an earlier record while
\* predictAll awaited its response
C25_Witness ==
    /\ lastEvent = "singleResponse"
    /\ ~returned.threw
    /\ \E f \in flows : f.kind = "batch"
    /\ Len(History) = 2
    /\ <<History[1]>> = returned.value

(***************************************************************************)
(* C26  Starting from empty storage, after any sequence of saveAnalysis,   *)
(* deleteRecord and clearHistory calls, getHistory() lists the surviving   *)
(* records newest first: a record saved later precedes every record saved  *)
(* earlier.                                                                *)
(***************************************************************************)
C26_NewestFirst ==
    \A j, k \in DOMAIN History : j < k => History[j].serial > History[k].serial

\* two survivors around a deleted record
C26_Witness ==
    /\ deletedSince
    /\ Len(History) = 2
    /\ History[1].serial > History[2].serial + 1

(***************************************************************************)
(* C27  History records are never changed after creation: a record enters  *)
(* the history as saveAnalysis returned it, and every record a store       *)
(* operation keeps has the id, timestamp, source, input and prediction it  *)
(* had before the operation.                                               *)
(***************************************************************************)
C27_NeverMutated ==
    [][\A k \in DOMAIN HistoryAfter :
          LET r == HistoryAfter[k]
          IN  IF r.serial \in Serials(History)
              THEN \E j \in DOMAIN History : History[j] = r
              ELSE lastEvent' = "saveAnalysis" /\ returned'.value = r]_vars

\* a record survived a save, a deletion of another record and a further save
C27_Witness ==
    /\ lastEvent = "saveAnalysis"
    /\ deletedSince
    /\ Len(History) = 2
    /\ History[2].serial = 1
    /\ serial = MaxSaves

(***************************************************************************)
(* C28  The simulator's loading flag matches reality: while                *)
(* SimulatorControls is mounted, simulating is true whenever a request     *)
(* issued by its debounce timer still awaits its response; the completion  *)
(* of an older request does not clear the flag while a newer request is in *)
(* flight.                                                                 *)
(***************************************************************************)
C28_SimulatingMatches == (mounted /\ InFlight("sim") # {}) => simulating

\* the positions of a history whose record has the id
WithId(items, id) == {k \in DOMAIN items : items[k].id = id}

\* the records of a history at the positions of `keep', in their order
RECURSIVE Kept(_, _, _)
Kept(items, keep, k) ==
    IF k > Len(items) THEN <<>>
    ELSE IF k \in keep THEN <<items[k]>> \o Kept(items, keep, k + 1)
         ELSE Kept(items, keep, k + 1)

(***************************************************************************)
(* C29 as stated: deleteRecord(id) keeps every record with another id,     *)
(* unchanged and in the same relative order, and removes exactly one       *)
(* record when the id is present.                                          *)
(***************************************************************************)
C29_ExactlyOneRemoved ==
    [][lastEvent' = "deleteRecord" =>
          LET id == returned'.arg
          IN  /\ HistoryAfter = Kept(History, DOMAIN History \ WithId(History, id), 1)
              /\ WithId(History, id) # {} => Len(HistoryAfter) = Len(History) - 1]_vars

(***************************************************************************)
(* C29  deleteRecord(id) keeps every record with another id, unchanged and *)
(* in the same relative order, and removes every record that has the id:   *)
(* the history shrinks by the number of records that had it (one when the  *)
(* ids of the history are distinct).                                       *)
(***************************************************************************)
C29_OnlyThatIdRemoved ==
    [][lastEvent' = "deleteRecord" =>
          LET id == returned'.arg
              hit == WithId(History, id)
          IN  /\ HistoryAfter = Kept(History, DOMAIN History \ hit, 1)
              /\ Len(HistoryAfter) = Len(History) - Cardinality(hit)]_vars

\* one of two records with different ids was deleted
C29_Witness ==
    /\ lastEvent = "deleteRecord"
    /\ deletedSince
    /\ Len(History) = 1
    /\ History[1].id # returned.arg
    /\ returned.arg # AbsentId
    /\ sinceClear = 2

(***************************************************************************)
(* C30  At most one debounce timer is pending in every reachable state,    *)
(* and it is the timer of the latest triggerSimulation call with a         *)
(* non-blank guest name; a timer that fires is the timer of the latest     *)
(* such call, never one set by an earlier call.                            *)
(***************************************************************************)
C30_OneTimerPending ==
    /\ [](/\ Cardinality(timers) <= 1
          /\ \A t \in timers : t.id = debounceRef /\ t.form = lastCall)
    /\ [][lastEvent' = "timer" =>
             \E t \in timers : /\ timers' = timers \ {t}
                               /\ t.id = debounceRef
                               /\ \A u \in timers : u.id >= t.id]_vars

\* a second call replaced the pending timer of the first before it fired
C30_Witness ==
    /\ lastEvent = "handleLeadTime"
    /\ debounceRef = 2
    /\ requests = <<>>
    /\ Cardinality(timers) = 1
    /\ \A t \in timers : t.id = 2

====
